---------------------------- MODULE Spec2Model ----------------------------
(***************************************************************************)
(* Model of the mcp9808 driver class (src/mcp9808.py).                     *)
(*                                                                         *)
(* State: the object's fields (self), the I2C master seen as a transport   *)
(* spy (log: every transaction handed to I2CMaster.transaction, in order;  *)
(* rx: the bytes the bus returned during the last call, empty if none),    *)
(* and the last public call with what it returned or raised (call, ret).   *)
(*                                                                         *)
(* Each public method is one action.  The environment's choices are the    *)
(* action's parameters: whether a transaction succeeds (IOError otherwise) *)
(* and the 16-bit word the addressed device register holds.                *)
(*                                                                         *)
(* Python ints are unbounded, so the bit operators below are defined on    *)
(* all integers (two's complement of infinite width), as in Python.        *)
(* A temperature is a float n * 0.0625; 0.0625 = 1/16 is exact in binary   *)
(* floating point and |n| <= 4096, so the product is exact and is kept as  *)
(* the rational [num |-> n, den |-> 16].  An optional value (lastData) is *)
(* a sequence of at most one element, None being the empty one.           *)
(***************************************************************************)
EXTENDS Integers, Sequences, FiniteSets

VARIABLES self, log, rx, call, ret

vars == <<self, log, rx, call, ret>>

---------------------------------------------------------------------------
(* Bounds of the model. *)

\* Longest transaction log explored by Spec.
MaxLog == 2
\* Longest transaction log explored by SpecSeq.
MaxSeqLog == 4
\* Unsigned inputs of __getSigned: 0 .. MaxUnsigned (13-bit range is 0 .. 8191).
MaxUnsigned == 8200

---------------------------------------------------------------------------
(* Constants __init__ stores in the object. *)

defaultAddr    == 24       \* mcp9808Addr = 0x18
regConfig      == 1
regTUpper      == 2
regTLower      == 3
regTCrit       == 4
regTA          == 5
regMfgID       == 6
regDevID       == 7
regRes         == 8
tempAlertCrit  == 32768    \* 0x8000
tempAlertUpper == 16384    \* 0x4000
tempAlertLower == 8192     \* 0x2000
tempAlertMask  == 8191     \* 0x1fff

---------------------------------------------------------------------------
(* Python integer operators. *)

RECURSIVE BitAnd(_, _)
BitAnd(x, y) ==
    IF x = 0 \/ y = 0 THEN 0
    ELSE IF x = -1 THEN y
    ELSE IF y = -1 THEN x
    ELSE (x % 2) * (y % 2) + 2 * BitAnd(x \div 2, y \div 2)

BitOr(x, y) == x + y - BitAnd(x, y)

BitNot(x) == -x - 1

ShiftLeft(x, n) == x * (2 ^ n)

---------------------------------------------------------------------------
(* Input domains. *)

Byte == 0 .. 255

\* Register addresses callers pass: the register map and the address on
\* either side of it.
Registers == (regConfig - 1) .. (regRes + 1)

\* The payload callers pass to setReg / setConfig (0x00, the default
\* configuration).  The driver hands it to the bus untouched.
Values == {0}

\* Words the device's register may hold, as sampled by the protocol
\* specification: positive and negative magnitudes, with and without flags.
SampleWords == {404, 8176, 41364}

\* Flag masks passed to checkAlarmFlags: every combination of the three alert
\* flags, and masks that reach into the magnitude bits.
FlagMasks ==
    { c + u + l : c \in {0, tempAlertCrit}, u \in {0, tempAlertUpper},
                  l \in {0, tempAlertLower} }
        \cup {1, tempAlertCrit + 1}

\* The words SpecSeq reads: 25.25 degrees without flags (0x0194), -1.0
\* degree with the critical and lower flags (0xBFF0).
SeqWords == {404, 49136}

\* The masks the protocol specification passes: one flag, two flags, and a
\* flag the sampled words never carry.
SampleFlags ==
    {tempAlertCrit, tempAlertCrit + tempAlertLower, tempAlertUpper}

\* What the bus does during one register read: the select-write raises, the
\* read raises, or the read returns the register's word.
BusOutcomes(words) ==
    { [wOk |-> FALSE, rOk |-> FALSE, word |-> 0],
      [wOk |-> TRUE,  rOk |-> FALSE, word |-> 0] }
        \cup { [wOk |-> TRUE, rOk |-> TRUE, word |-> w] : w \in words }

---------------------------------------------------------------------------
(* The transport (quick2wire I2CMaster), seen through its call log. *)

\* i2c.writing_bytes(addr, *bytes)
writing_bytes(addr, bytes) ==
    [op |-> "writing_bytes", addr |-> addr, bytes |-> bytes, count |-> 0]

\* i2c.reading(addr, count)
reading(addr, count) ==
    [op |-> "reading", addr |-> addr, bytes |-> <<>>, count |-> count]

\* I2CMaster.transaction(msg) as the spy records it: the message and whether
\* the bus carried it out (ok) or raised IOError.
transaction(msg, ok) == [msg |-> msg, ok |-> ok]

\* What a read of n bytes returns when the register holds word: the register
\* is sent most significant byte first.
TransportRead(n, word) ==
    IF n = 2 THEN << (word \div 256) % 256, word % 256 >>
    ELSE << word % 256 >>

---------------------------------------------------------------------------
(* The last public call and its outcome.  Fields a call does not use keep   *)
(* the values below.                                                       *)

NoCall == [op |-> "none", register |-> -1, value |-> -1, flags |-> -1,
           strict |-> FALSE, unsigned |-> -1, bits |-> -1]

\* kind: "none", "ok" (returned), "IOError" or "ValueError" (raised).
NoRet == [kind |-> "none", data |-> <<>>, temp |-> [num |-> 0, den |-> 1],
          flag |-> FALSE, signed |-> 0]

---------------------------------------------------------------------------
(* The object after __init__. *)

Init ==
    /\ self = [ addr           |-> defaultAddr,
                lastData       |-> <<>>,      \* None
                regConfig      |-> regConfig,
                regTUpper      |-> regTUpper,
                regTLower      |-> regTLower,
                regTCrit       |-> regTCrit,
                regTA          |-> regTA,
                regMfgID       |-> regMfgID,
                regDevID       |-> regDevID,
                regRes         |-> regRes,
                tempAlertCrit  |-> tempAlertCrit,
                tempAlertUpper |-> tempAlertUpper,
                tempAlertLower |-> tempAlertLower,
                tempAlertMask  |-> tempAlertMask ]
    /\ log = <<>>
    /\ rx = <<>>
    /\ call = NoCall
    /\ ret = NoRet


---------------------------------------------------------------------------
(* Private helpers.  Each returns what the method does as a record:        *)
(* issued, the transactions handed to the bus in order; kind, how the      *)
(* method ends; data, the bytes it returns.                                *)

\* __readReg with the read issued whether or not the select-write raised.
readReg_noAbort(register, byteCt, wOk, rOk, word) ==
    [ issued |-> << transaction(writing_bytes(self.addr, <<register>>), wOk),
                    transaction(reading(self.addr, byteCt), rOk) >>,
      kind   |-> IF rOk THEN "ok" ELSE "IOError",
      data   |-> IF rOk THEN TransportRead(byteCt, word) ELSE <<>> ]

\* __readReg(register, byteCt): the select-write, then the read; the first
\* IOError leaves the try block and is raised again.
readReg(register, byteCt, wOk, rOk, word) ==
    IF ~wOk
    THEN [ issued |-> << transaction(writing_bytes(self.addr, <<register>>), FALSE) >>,
           kind   |-> "IOError",
           data   |-> <<>> ]
    ELSE [ issued |-> << transaction(writing_bytes(self.addr, <<register>>), TRUE),
                         transaction(reading(self.addr, byteCt), rOk) >>,
           kind   |-> IF rOk THEN "ok" ELSE "IOError",
           data   |-> IF rOk THEN TransportRead(byteCt, word) ELSE <<>> ]

\* __writeReg(register, data): one transaction carrying the register and data.
writeReg(register, data, ok) ==
    [ issued |-> << transaction(writing_bytes(self.addr, <<register, data>>), ok) >>,
      kind   |-> IF ok THEN "ok" ELSE "IOError",
      data   |-> <<>> ]

\* __getSigned testing bit `bits` instead of bit `bits - 1`.
getSigned_signBitOffByOne(unsigned, bits) ==
    IF BitAnd(unsigned, ShiftLeft(1, bits)) # 0
    THEN unsigned - ShiftLeft(1, bits)
    ELSE unsigned

\* __getSigned(unsigned, bits)
getSigned(unsigned, bits) ==
    IF BitAnd(unsigned, ShiftLeft(1, bits - 1)) # 0
    THEN unsigned - ShiftLeft(1, bits)
    ELSE unsigned

---------------------------------------------------------------------------
(* getReg and setReg as functions of their arguments and the bus. *)

\* The width test of getReg with <= in place of <.
getRegByteCt_le8(register) == IF register <= 8 THEN 2 ELSE 1

\* The byte count getReg asks __readReg for.
getRegByteCt(register) == IF register < 8 THEN 2 ELSE 1

\* getReg refusing addresses outside the register map.
getReg_validating(register, wOk, rOk, word) ==
    IF register >= self.regConfig /\ register <= self.regRes
    THEN readReg(register, getRegByteCt(register), wOk, rOk, word)
    ELSE [issued |-> <<>>, kind |-> "ValueError", data |-> <<>>]

\* getReg(register)
getReg(register, wOk, rOk, word) ==
    readReg(register, getRegByteCt(register), wOk, rOk, word)

\* The guard of setReg with regTA as its upper end.
setRegWritable_upToTA(register) ==
    register >= self.regConfig /\ register <= self.regTA

\* The guard of setReg.
setRegWritable(register) ==
    register >= self.regConfig /\ register <= self.regTCrit

\* setReg(register, value)
setReg(register, value, ok) ==
    IF setRegWritable(register)
    THEN writeReg(register, value, ok)
    ELSE [issued |-> <<>>, kind |-> "ValueError", data |-> <<>>]

---------------------------------------------------------------------------
(* Decoding of the ambient temperature register. *)

\* getAmbientTemp's arithmetic without the flag mask.
ambientTemp_noMask(i2cRaw) ==
    LET tempBytes == BitOr(ShiftLeft(i2cRaw[1], 8), i2cRaw[2])
        signedNum == getSigned(tempBytes, 13)
    IN  [num |-> signedNum, den |-> 16]

\* getAmbientTemp's arithmetic on the two bytes read: mask, sign, scale.
ambientTemp(i2cRaw) ==
    LET tempBytes == BitAnd(BitOr(ShiftLeft(i2cRaw[1], 8), i2cRaw[2]),
                            self.tempAlertMask)
        signedNum == getSigned(tempBytes, 13)
    IN  [num |-> signedNum, den |-> 16]

\* checkAlarmFlags with the strict test as equality of the flag sets.
alarmFlags_exclusive(i2cRaw, flags, strict) ==
    LET tempBytes == BitAnd(BitOr(ShiftLeft(i2cRaw[1], 8), i2cRaw[2]),
                            BitNot(self.tempAlertMask))
    IN  IF strict THEN tempBytes = flags
        ELSE BitAnd(tempBytes, flags) > 0

\* checkAlarmFlags' test on the two bytes read.
alarmFlags(i2cRaw, flags, strict) ==
    LET tempBytes == BitAnd(BitOr(ShiftLeft(i2cRaw[1], 8), i2cRaw[2]),
                            BitNot(self.tempAlertMask))
    IN  IF strict THEN BitAnd(tempBytes, flags) = flags
        ELSE BitAnd(tempBytes, flags) > 0

---------------------------------------------------------------------------
(* The public methods.  Return(c, out, r) is the common ending: the bus     *)
(* has seen out.issued, the caller has c's outcome r.  No method assigns a  *)
(* field of self.                                                          *)

Return(c, out, r) ==
    /\ log' = log \o out.issued
    /\ rx' = out.data
    /\ call' = c
    /\ ret' = r
    /\ self' = self

\* getReg(register)
GetReg(register, wOk, rOk, word) ==
    LET out == getReg(register, wOk, rOk, word)
    IN  Return([NoCall EXCEPT !.op = "getReg", !.register = register],
               out,
               [NoRet EXCEPT !.kind = out.kind, !.data = out.data])

\* setReg(register, value)
SetReg(register, value, ok) ==
    LET out == setReg(register, value, ok)
    IN  Return([NoCall EXCEPT !.op = "setReg", !.register = register,
                              !.value = value],
               out,
               [NoRet EXCEPT !.kind = out.kind])

\* setConfig(config)
SetConfig(config, ok) ==
    LET out == setReg(self.regConfig, config, ok)
    IN  Return([NoCall EXCEPT !.op = "setConfig", !.value = config],
               out,
               [NoRet EXCEPT !.kind = out.kind])

\* setTempWindow(upperTemp, lowerTemp): a docstring only, returns None.
SetTempWindow(upperTemp, lowerTemp) ==
    Return([NoCall EXCEPT !.op = "setTempWindow", !.value = upperTemp],
           [issued |-> <<>>, kind |-> "ok", data |-> <<>>],
           [NoRet EXCEPT !.kind = "ok"])

\* setTempCritical(critTemp): a docstring only, returns None.
SetTempCritical(critTemp) ==
    Return([NoCall EXCEPT !.op = "setTempCritical", !.value = critTemp],
           [issued |-> <<>>, kind |-> "ok", data |-> <<>>],
           [NoRet EXCEPT !.kind = "ok"])

\* getAmbientTemp keeping the first reading in lastData and answering from it.
GetAmbientTemp_cached(wOk, rOk, word) ==
    IF self.lastData # <<>>
    THEN /\ call' = [NoCall EXCEPT !.op = "getAmbientTemp"]
         /\ ret' = [NoRet EXCEPT !.kind = "ok", !.temp = ambientTemp(self.lastData[1])]
         /\ rx' = <<>>
         /\ UNCHANGED <<self, log>>
    ELSE LET out == getReg(self.regTA, wOk, rOk, word)
         IN  /\ log' = log \o out.issued
             /\ rx' = out.data
             /\ call' = [NoCall EXCEPT !.op = "getAmbientTemp"]
             /\ ret' = IF out.kind = "ok"
                       THEN [NoRet EXCEPT !.kind = "ok", !.temp = ambientTemp(out.data)]
                       ELSE [NoRet EXCEPT !.kind = out.kind]
             /\ self' = IF out.kind = "ok"
                        THEN [self EXCEPT !.lastData = <<out.data>>]
                        ELSE self

\* getAmbientTemp()
GetAmbientTemp(wOk, rOk, word) ==
    LET out == getReg(self.regTA, wOk, rOk, word)
    IN  Return([NoCall EXCEPT !.op = "getAmbientTemp"],
               out,
               IF out.kind = "ok"
               THEN [NoRet EXCEPT !.kind = "ok", !.temp = ambientTemp(out.data)]
               ELSE [NoRet EXCEPT !.kind = out.kind])

\* checkAlarmFlags(flags, strict)
CheckAlarmFlags(flags, strict, wOk, rOk, word) ==
    LET out == getReg(self.regTA, wOk, rOk, word)
    IN  Return([NoCall EXCEPT !.op = "checkAlarmFlags", !.flags = flags,
                              !.strict = strict],
               out,
               IF out.kind = "ok"
               THEN [NoRet EXCEPT !.kind = "ok",
                                  !.flag = alarmFlags(out.data, flags, strict)]
               ELSE [NoRet EXCEPT !.kind = out.kind])

\* __getSigned(unsigned, bits), called on its own.
GetSigned(unsigned, bits) ==
    Return([NoCall EXCEPT !.op = "__getSigned", !.unsigned = unsigned,
                          !.bits = bits],
           [issued |-> <<>>, kind |-> "ok", data |-> <<>>],
           [NoRet EXCEPT !.kind = "ok", !.signed = getSigned(unsigned, bits)])

---------------------------------------------------------------------------
(* Spec: any sequence of public calls while the log holds at most MaxLog   *)
(* transactions: every call that uses the bus needs room for its first     *)
(* transaction, and a call that would outgrow the log is left out.  Each   *)
(* transaction fails or not; the device register holds one of SampleWords. *)

Next ==
    \/ /\ Len(log) < MaxLog
       /\ \E register \in Registers, bus \in BusOutcomes(SampleWords) :
            GetReg(register, bus.wOk, bus.rOk, bus.word)
       /\ Len(log') <= MaxLog
    \/ /\ \E register \in Registers, value \in Values, ok \in BOOLEAN :
            SetReg(register, value, ok)
       /\ Len(log') <= MaxLog
    \/ /\ Len(log) < MaxLog
       /\ \E config \in Values, ok \in BOOLEAN :
            SetConfig(config, ok)
    \/ \E upperTemp \in Values, lowerTemp \in Values :
            SetTempWindow(upperTemp, lowerTemp)
    \/ \E critTemp \in Values :
            SetTempCritical(critTemp)
    \/ /\ Len(log) < MaxLog
       /\ \E bus \in BusOutcomes(SampleWords) :
            GetAmbientTemp(bus.wOk, bus.rOk, bus.word)
       /\ Len(log') <= MaxLog
    \/ /\ Len(log) < MaxLog
       /\ \E flags \in SampleFlags, strict \in BOOLEAN,
             bus \in BusOutcomes(SampleWords) :
            CheckAlarmFlags(flags, strict, bus.wOk, bus.rOk, bus.word)
       /\ Len(log') <= MaxLog

Spec == Init /\ [][Next]_vars

(* SpecSeq: longer sequences of the same calls (two full register reads    *)
(* fit in the log) over fewer inputs: the ambient register for getReg, one *)
(* writable and one read-only register for setReg, two register words.     *)

NextSeq ==
    \/ /\ Len(log) < MaxSeqLog
       /\ \E bus \in BusOutcomes(SeqWords) :
            GetReg(regTA, bus.wOk, bus.rOk, bus.word)
       /\ Len(log') <= MaxSeqLog
    \/ /\ \E register \in {regTCrit, regTA}, value \in Values, ok \in BOOLEAN :
            SetReg(register, value, ok)
       /\ Len(log') <= MaxSeqLog
    \/ /\ Len(log) < MaxSeqLog
       /\ \E config \in Values, ok \in BOOLEAN :
            SetConfig(config, ok)
    \/ \E upperTemp \in Values, lowerTemp \in Values :
            SetTempWindow(upperTemp, lowerTemp)
    \/ \E critTemp \in Values :
            SetTempCritical(critTemp)
    \/ /\ Len(log) < MaxSeqLog
       /\ \E bus \in BusOutcomes(SeqWords) :
            GetAmbientTemp(bus.wOk, bus.rOk, bus.word)
       /\ Len(log') <= MaxSeqLog
    \/ /\ Len(log) < MaxSeqLog
       /\ \E flags \in {tempAlertCrit, tempAlertUpper}, strict \in BOOLEAN,
             bus \in BusOutcomes(SeqWords) :
            CheckAlarmFlags(flags, strict, bus.wOk, bus.rOk, bus.word)
       /\ Len(log') <= MaxSeqLog

SpecSeq == Init /\ [][NextSeq]_vars

(* SpecWords: the first call on a new object, over every value of its      *)
(* inputs: every 16-bit register word for getAmbientTemp, every high byte  *)
(* (flags and sign) for checkAlarmFlags, every unsigned up to MaxUnsigned  *)
(* for __getSigned with the two widths the source uses (11, 13).           *)

NextWords ==
    \/ /\ call.op = "none"
       /\ \E hi \in Byte, lo \in Byte :
            GetAmbientTemp(TRUE, TRUE, hi * 256 + lo)
    \/ /\ call.op = "none"
       /\ \E hi \in Byte, lo \in {0, 148, 255}, flags \in FlagMasks,
             strict \in BOOLEAN :
            CheckAlarmFlags(flags, strict, TRUE, TRUE, hi * 256 + lo)
    \/ /\ call.op = "none"
       /\ \E unsigned \in 0 .. MaxUnsigned, bits \in {11, 13} :
            GetSigned(unsigned, bits)

SpecWords == Init /\ [][NextWords]_vars

---------------------------------------------------------------------------
(* Properties.  The arithmetic below is stated with \div and %, not with   *)
(* the bit operators the model of the code uses.                           *)

\* Bit i of the natural number x is set.
HasBit(x, i) == (x \div (2 ^ i)) % 2 = 1

\* The 16-bit word the bus returned as two bytes, most significant first.
RxWord == rx[1] * 256 + rx[2]

\* The transactions the step appended to the log.
Issued == SubSeq(log', Len(log) + 1, Len(log'))

\* The step only appended to the log.
LogExtended == Len(log') >= Len(log) /\ SubSeq(log', 1, Len(log)) = log

\* The select-write of a register, and the read of n bytes, as logged.
SelectOf(register, ok) ==
    [msg |-> [op |-> "writing_bytes", addr |-> defaultAddr,
              bytes |-> <<register>>, count |-> 0],
     ok |-> ok]

ReadOf(n, ok) ==
    [msg |-> [op |-> "reading", addr |-> defaultAddr, bytes |-> <<>>,
              count |-> n],
     ok |-> ok]

\* C1: whenever getAmbientTemp returns, with w the word the AmbientTemp
\* register returned and m = w mod 2^13, the result is m/16 when bit 12 of w
\* is clear and (m - 8192)/16 when it is set; bits 13-15 of w play no part.
C1_AmbientTempDecode ==
    (call.op = "getAmbientTemp" /\ ret.kind = "ok") =>
        LET m == RxWord % 8192
        IN  /\ Len(rx) = 2
            /\ ret.temp.den = 16
            /\ ret.temp.num = IF HasBit(RxWord, 12) THEN m - 8192 ELSE m

\* getAmbientTemp has returned -1.0 for the word 0xBFF0 (0x1FF0 with the
\* critical and lower flags set).
C1_Witness ==
    /\ call.op = "getAmbientTemp"
    /\ ret.kind = "ok"
    /\ rx = <<191, 240>>
    /\ ret.temp = [num |-> -16, den |-> 16]

\* C2: for u in 0 .. 8191, __getSigned(u, 13) is u when u < 4096 and
\* u - 8192 otherwise, so it lies in -4096 .. 4095.
C2_GetSigned13 ==
    (call.op = "__getSigned" /\ call.bits = 13 /\ call.unsigned \in 0 .. 8191) =>
        /\ ret.kind = "ok"
        /\ ret.signed = IF call.unsigned < 4096 THEN call.unsigned
                        ELSE call.unsigned - 8192
        /\ ret.signed \in -4096 .. 4095

\* __getSigned(4096, 13) has returned -4096.
C2_Witness ==
    /\ call.op = "__getSigned"
    /\ call.bits = 13
    /\ call.unsigned = 4096
    /\ ret.signed = -4096

\* C3: a setReg call with a register outside 0x01 .. 0x04 raises ValueError
\* and leaves the transaction log as it was.
C3_SetRegRejectsBeforeBus ==
    [][ (call'.op = "setReg" /\ call'.register \notin 1 .. 4) =>
            (ret'.kind = "ValueError" /\ log' = log) ]_vars

\* setReg(0x05, ...) has been rejected after the bus had been used.
C3_Witness ==
    /\ call.op = "setReg"
    /\ call.register = 5
    /\ ret.kind = "ValueError"
    /\ Len(log) >= 1

\* C4: a getReg call appends to the log either the select-write of its
\* register, failed, and then raises IOError; or the select-write, succeeded,
\* followed by one read (of the register's width for a register of the map),
\* and it returns exactly when that read succeeded.  Nothing is issued twice.
C4_TwoStepProtocol ==
    [][ call'.op = "getReg" =>
          /\ LogExtended
          /\ \/ /\ Issued = << SelectOf(call'.register, FALSE) >>
                /\ ret'.kind = "IOError"
             \/ /\ Len(Issued) = 2
                /\ Issued[1] = SelectOf(call'.register, TRUE)
                /\ Issued[2].msg.op = "reading"
                /\ call'.register \in 1 .. 8 =>
                     Issued[2].msg.count = IF call'.register = 8 THEN 1 ELSE 2
                /\ ret'.kind = IF Issued[2].ok THEN "ok" ELSE "IOError" ]_vars

\* A getReg call has failed at the select-write, after an earlier use of the
\* bus, without issuing a read.
C4_Witness ==
    /\ call.op = "getReg"
    /\ ret.kind = "IOError"
    /\ Len(log) = 2
    /\ log[2] = SelectOf(call.register, FALSE)

\* C5: the read getReg issues asks for 2 bytes for each register 0x01 .. 0x07
\* and 1 byte for register 0x08, whatever else the call was given, and a
\* successful call returns that many bytes.
C5_ReadWidth ==
    (/\ call.op = "getReg"
     /\ call.register \in 1 .. 8
     /\ log # <<>>
     /\ log[Len(log)].msg.op = "reading") =>
        LET width == IF call.register = 8 THEN 1 ELSE 2
        IN  /\ log[Len(log)].msg.count = width
            /\ ret.kind = "ok" => Len(ret.data) = width

\* getReg(0x08) has returned one byte.
C5_Witness ==
    /\ call.op = "getReg"
    /\ call.register = 8
    /\ ret.kind = "ok"
    /\ Len(ret.data) = 1
    /\ log[Len(log)] = ReadOf(1, TRUE)

C7_GetRegRejectsOutOfMap ==
    [][ (call'.op = "getReg" /\ call'.register \notin 1 .. 8) =>
            (ret'.kind = "ValueError" /\ log' = log) ]_vars

\* C7 amended: getReg with a register outside 0x01 .. 0x08 is not rejected:
\* it issues the select-write of that address, then, if that succeeded, one
\* read of 2 bytes for an address below 8 and of 1 byte otherwise, and it
\* ends with the bytes read or with IOError.
C7_GetRegReadsOutOfMap ==
    [][ (call'.op = "getReg" /\ call'.register \notin 1 .. 8) =>
          /\ LogExtended
          /\ Len(Issued) >= 1
          /\ Issued[1].msg = SelectOf(call'.register, TRUE).msg
          /\ Issued[1].ok =>
                /\ Len(Issued) = 2
                /\ Issued[2].msg =
                     ReadOf(IF call'.register < 8 THEN 2 ELSE 1, TRUE).msg
          /\ ret'.kind \in {"ok", "IOError"}
          /\ ret'.kind = "ok" =>
                Len(ret'.data) = IF call'.register < 8 THEN 2 ELSE 1 ]_vars

\* getReg(0x09) has returned one byte read from the bus.
C7_Witness ==
    /\ call.op = "getReg"
    /\ call.register = 9
    /\ ret.kind = "ok"
    /\ Len(ret.data) = 1
    /\ log[Len(log)] = ReadOf(1, TRUE)

C9_StrictOnlySpecified ==
    (call.op = "checkAlarmFlags" /\ ret.kind = "ok" /\ call.strict /\ ret.flag) =>
        \A i \in 13 .. 15 : HasBit(RxWord, i) => HasBit(call.flags, i)

=============================================================================
